---- MODULE Spec2Model ----
(***************************************************************************)
(* A model of audio-converter.py: the command line entry point main, the   *)
(* conversion pipeline convert_audio, the engine probe check_ffmpeg and    *)
(* the format whitelist validate_format.                                   *)
(*                                                                         *)
(* Path strings are sequences of one-character strings, so that the       *)
(* os.path functions are computed character by character as posixpath     *)
(* computes them.  The filesystem is a set of directories and a set of     *)
(* regular files, each named by its list of components below the working   *)
(* directory, which is taken to be the filesystem root (so ".." at the top *)
(* stays at the top and there are no symbolic links).                      *)
(***************************************************************************)
EXTENDS Integers, Sequences, FiniteSets, TLC

\* ------------------------------------------------------------------ bounds
MaxPathLen == 4   \* longest generated --output / output_file string
MaxCalls == 2     \* calls of convert_audio a library caller makes in a row

\* ----------------------------------------------------------------- strings
None == <<"<None>">>          \* Python's None, distinct from every string
EmptyStr == <<>>
Slash == "/"
Dot == "."
Backslash == "\\"

IsStr(x) == x # None

\* value is falsy in Python: None or the empty string
Falsy(x) == x = None \/ x = EmptyStr

\* 1-based index of the last occurrence of ch in s, 0 if there is none
\* (Python: s.rfind(ch) + 1)
RFind(s, ch) ==
    LET hits == {i \in 1..Len(s) : s[i] = ch}
    IN  IF hits = {} THEN 0 ELSE CHOOSE i \in hits : \A j \in hits : j <= i

\* s.rstrip(ch)
RECURSIVE RStrip(_, _)
RStrip(s, ch) ==
    IF s # <<>> /\ s[Len(s)] = ch THEN RStrip(SubSeq(s, 1, Len(s) - 1), ch) ELSE s

\* s.replace(old, new) for single characters
Replace(s, old, new) == [i \in 1..Len(s) |-> IF s[i] = old THEN new ELSE s[i]]

LowerChar(c) ==
    CASE c = "A" -> "a" [] c = "C" -> "c" [] c = "F" -> "f" [] c = "G" -> "g"
      [] c = "L" -> "l" [] c = "M" -> "m" [] c = "O" -> "o" [] c = "P" -> "p"
      [] c = "V" -> "v" [] c = "W" -> "w" [] c = "X" -> "x" [] c = "Y" -> "y"
      [] c = "Z" -> "z" [] OTHER -> c

\* str.lower()
Lower(s) == [i \in 1..Len(s) |-> LowerChar(s[i])]

\* ----------------------------------------------------------------- os.path
\* posixpath.basename
basename(p) == SubSeq(p, RFind(p, Slash) + 1, Len(p))

\* posixpath.dirname
dirname(p) ==
    LET head == SubSeq(p, 1, RFind(p, Slash))
    IN  IF head # <<>> /\ (\E i \in 1..Len(head) : head[i] # Slash)
        THEN RStrip(head, Slash) ELSE head

\* posixpath.splitext: <<root, ext>>
splitext(p) ==
    LET sepIndex == RFind(p, Slash)
        dotIndex == RFind(p, Dot)
    IN  IF dotIndex > sepIndex
           /\ \E k \in (sepIndex + 1)..(dotIndex - 1) : p[k] # Dot
        THEN <<SubSeq(p, 1, dotIndex - 1), SubSeq(p, dotIndex, Len(p))>>
        ELSE <<p, EmptyStr>>

\* posixpath.join(a, b)
join(a, b) ==
    IF b # <<>> /\ b[1] = Slash THEN b
    ELSE IF a = <<>> \/ a[Len(a)] = Slash THEN a \o b
    ELSE a \o <<Slash>> \o b

\* -------------------------------------------------------------- filesystem
Root == <<>>

\* the components of a path string, empty ones dropped
RECURSIVE Components(_)
Components(p) ==
    IF p = <<>> THEN <<>>
    ELSE LET k == IF \E i \in 1..Len(p) : p[i] = Slash
                  THEN CHOOSE i \in 1..Len(p) :
                         p[i] = Slash /\ \A j \in 1..(i - 1) : p[j] # Slash
                  ELSE Len(p) + 1
             first == SubSeq(p, 1, k - 1)
             rest == Components(SubSeq(p, k + 1, Len(p)))
         IN  IF first = <<>> THEN rest ELSE <<first>> \o rest

Parent(loc) == IF loc = Root THEN Root ELSE SubSeq(loc, 1, Len(loc) - 1)

IsDirLoc(loc, dirs) == loc = Root \/ loc \in dirs

\* Path lookup as the kernel does it: every component but the last is
\* looked up in a directory that must exist.
RECURSIVE Walk(_, _, _)
Walk(comps, cur, dirs) ==
    IF comps = <<>> THEN [ok |-> TRUE, loc |-> cur]
    ELSE IF ~IsDirLoc(cur, dirs) THEN [ok |-> FALSE, loc |-> cur]
    ELSE LET c == Head(comps)
             nxt == IF c = <<Dot>> THEN cur
                    ELSE IF c = <<Dot, Dot>> THEN Parent(cur)
                    ELSE Append(cur, c)
         IN  Walk(Tail(comps), nxt, dirs)

TrailingSlash(p) == p # <<>> /\ p[Len(p)] = Slash

\* os.path.isdir
isdir(p, dirs, files) ==
    /\ p # <<>>
    /\ LET w == Walk(Components(p), Root, dirs)
       IN  w.ok /\ IsDirLoc(w.loc, dirs)

\* os.path.isfile (a string argument)
isfile(p, dirs, files) ==
    /\ p # <<>>
    /\ ~TrailingSlash(p)
    /\ LET w == Walk(Components(p), Root, dirs)
       IN  w.ok /\ w.loc \in files

\* os.makedirs(p, exist_ok=True): every missing directory on the way is
\* created; a regular file in the way is an OSError.
RECURSIVE makedirs(_, _, _, _)
makedirs(comps, cur, dirs, files) ==
    IF comps = <<>> THEN [ok |-> TRUE, dirs |-> dirs]
    ELSE LET c == Head(comps)
         IN  IF c = <<Dot>> THEN makedirs(Tail(comps), cur, dirs, files)
             ELSE IF c = <<Dot, Dot>>
                  THEN makedirs(Tail(comps), Parent(cur), dirs, files)
             ELSE IF Append(cur, c) \in files THEN [ok |-> FALSE, dirs |-> dirs]
             ELSE makedirs(Tail(comps), Append(cur, c),
                           dirs \cup {Append(cur, c)}, files)

\* open(p, 'wb') of the export: the place the file would be written, if
\* the name can be opened for writing at all.
WriteTarget(p, dirs, files) ==
    LET comps == Components(p)
    IN  IF comps = <<>> \/ TrailingSlash(p) THEN [ok |-> FALSE, loc |-> Root]
        ELSE LET last == comps[Len(comps)]
                 w == Walk(SubSeq(comps, 1, Len(comps) - 1), Root, dirs)
                 loc == Append(w.loc, last)
             IN  [ok |-> /\ w.ok /\ IsDirLoc(w.loc, dirs)
                         /\ last # <<Dot>> /\ last # <<Dot, Dot>>
                         /\ loc \notin dirs,
                  loc |-> loc]

\* ---------------------------------------------------------- string values
song_wav == <<"s", "o", "n", "g", ".", "w", "a", "v">>
a_song_wav == <<"a", "/", "s", "o", "n", "g", ".", "w", "a", "v">>
a_bs_song_wav == <<"a", "\\", "s", "o", "n", "g", ".", "w", "a", "v">>
gone_wav == <<"g", "o", "n", "e", ".", "w", "a", "v">>
a_rc == <<"a", "/", ".", "r", "c">>
b_dir == <<"b", "/">>
c_renamed_ogg == <<"c", "/", "r", "e", "n", "a", "m", "e", "d", ".", "o", "g", "g">>
c_bs_renamed_ogg == <<"c", "\\", "r", "e", "n", "a", "m", "e", "d", ".", "o", "g", "g">>
foo_mp3 == <<"f", "o", "o", ".", "m", "p", "3">>
mp3 == <<"m", "p", "3">>
wav == <<"w", "a", "v">>
ogg == <<"o", "g", "g">>
m4a == <<"m", "4", "a">>
flac == <<"f", "l", "a", "c">>
aac == <<"a", "a", "c">>
wma == <<"w", "m", "a">>
MP3 == <<"M", "P", "3">>
OGG == <<"O", "G", "G">>
xyz == <<"x", "y", "z">>

\* ------------------------------------------------------- program functions
\* get_supported_formats(): the list it returns
get_supported_formats == <<mp3, wav, ogg, m4a, flac, aac, wma>>

\* validate_format without the .lower()
validate_format_exact(format_str) ==
    \E i \in 1..Len(get_supported_formats) :
        format_str = get_supported_formats[i]

\* validate_format(format_str), for a string argument
validate_format(format_str) ==
    \E i \in 1..Len(get_supported_formats) :
        Lower(format_str) = get_supported_formats[i]

\* Outcomes of subprocess.run(['ffmpeg', '-version'], check=True):
\* it returns, or raises CalledProcessError (a SubprocessError; non-zero
\* exit), FileNotFoundError (no such program), or another OSError such as
\* PermissionError (the program is there and may not be executed).
ProbeOutcomes == {"ok", "CalledProcessError", "FileNotFoundError", "PermissionError"}

\* check_ffmpeg whose except branch falls through to return True
check_ffmpeg_lenient(outcome, exe) ==
    IF outcome \in {"ok", "CalledProcessError", "FileNotFoundError"}
    THEN "True" ELSE "raise"

\* check_ffmpeg(): "True", "False", or "raise" when the exception is none
\* of those the except clause names.  exe is os.path.exists('ffmpeg.exe').
check_ffmpeg(outcome, exe) ==
    IF outcome = "ok" THEN "True"
    ELSE IF outcome \in {"CalledProcessError", "FileNotFoundError"}
         THEN (IF exe THEN "True" ELSE "False")
    ELSE "raise"

\* f"{original_filename}.{output_format}"
FileName(original_filename, output_format) ==
    original_filename \o <<Dot>> \o output_format

\* the output path handling with os.path.exists in place of os.path.isdir
ResolveOutputPath_exists(in, fmt, out, dirs, files) ==
    LET original_filename == splitext(basename(in))[1]
        w == Walk(Components(out), Root, dirs)
    IN  IF Falsy(out) THEN FileName(original_filename, fmt)
        ELSE IF w.ok /\ (IsDirLoc(w.loc, dirs) \/ w.loc \in files)
             THEN join(out, FileName(original_filename, fmt))
        ELSE LET output_dir == dirname(out)
             IN  IF output_dir # EmptyStr
                 THEN join(output_dir, FileName(original_filename, fmt))
                 ELSE out

\* convert_audio, "Handle output path": the value of output_file after it
ResolveOutputPath(in, fmt, out, dirs, files) ==
    LET original_filename == splitext(basename(in))[1]
    IN  IF Falsy(out) THEN FileName(original_filename, fmt)
        ELSE IF isdir(out, dirs, files)
             THEN join(out, FileName(original_filename, fmt))
        ELSE LET output_dir == dirname(out)
             IN  IF output_dir # EmptyStr
                 THEN join(output_dir, FileName(original_filename, fmt))
                 ELSE out

\* ------------------------------------------------------------------ inputs
PathChars == {"c", Dot, Slash}

\* every string over PathChars of at most n characters
Strings(n) == UNION {[1..k -> PathChars] : k \in 0..n}

LibInputs == {song_wav, a_song_wav, gone_wav, a_rc, None}
LibFormats == {mp3, OGG, flac, xyz, EmptyStr, None}
LibOutputs == Strings(MaxPathLen) \cup {None, b_dir, c_renamed_ogg}

\* the command line: None is an option that was not given
CliInputs == {song_wav, a_bs_song_wav, gone_wav, None}
CliFormats == {mp3, flac, xyz, None}
CliOutputs == {None, EmptyStr, b_dir, c_bs_renamed_ogg, foo_mp3}

\* the filesystem before the program runs
BaseDirs == {<<(<<"a">>)>>, <<(<<"b">>)>>}
BaseFiles == {<<song_wav>>, <<(<<"a">>), song_wav>>, <<(<<"a">>), (<<Dot, "r", "c">>)>>}
InitialTrees ==
    { [dirs |-> BaseDirs, files |-> BaseFiles],
      [dirs |-> BaseDirs \cup {<<(<<"c">>)>>}, files |-> BaseFiles],
      [dirs |-> BaseDirs, files |-> BaseFiles \cup {<<(<<"c">>)>>}] }

Order == <<"check", "isfile", "validate", "resolve", "mkdir", "convert">>

\* ------------------------------------------------------------------- state
VARIABLES
    mode,           \* "cli": main runs once; "lib": convert_audio is called
    request,        \* the command line, or the arguments the caller passes
    pc,             \* position in main / convert_audio
    input_file, output_format, output_arg,   \* parameters of the call
    output_file,    \* convert_audio's local output_file
    result,         \* return value of convert_audio (at pc = "returned")
    exitCode,       \* status of sys.exit, -1 while running
    fsDirs, fsFiles,        \* the filesystem
    snapDirs, snapFiles,    \* the filesystem when the call was entered
    probe, localExe,        \* what check_ffmpeg saw in this call
    checkRaised,    \* check_ffmpeg ended by raising
    exc,            \* exception caught by convert_audio's last handler
    escaped,        \* an exception left convert_audio
    failedAt,       \* the step that made the call return False
    steps,          \* the steps this call has executed
    engine,         \* the invocations of the external engine in this call
    calls,          \* completed calls
    prevResolved, prevIsDir   \* of the previous call: output_file, isdir(output)

vars == <<mode, request, pc, input_file, output_format, output_arg,
          output_file, result, exitCode, fsDirs, fsFiles, snapDirs, snapFiles,
          probe, localExe, checkRaised, exc, escaped, failedAt, steps, engine,
          calls, prevResolved, prevIsDir>>

callVars == <<input_file, output_format, output_arg, output_file, result,
              snapDirs, snapFiles, probe, localExe, checkRaised, exc, escaped,
              failedAt, steps, engine>>

Requests ==
    { [input |-> i, fmt |-> f, output |-> o, help |-> FALSE, malformed |-> FALSE] :
        i \in LibInputs, f \in LibFormats, o \in LibOutputs }

CommandLines ==
    { [input |-> i, fmt |-> f, output |-> o, help |-> h, malformed |-> m] :
        i \in CliInputs, f \in CliFormats, o \in CliOutputs,
        h \in BOOLEAN, m \in BOOLEAN }

Init ==
    /\ \/ mode = "lib" /\ pc = "idle" /\ request \in Requests
       \/ mode = "cli" /\ pc = "main" /\ request \in CommandLines
    /\ \E t \in InitialTrees : fsDirs = t.dirs /\ fsFiles = t.files
    /\ snapDirs = fsDirs /\ snapFiles = fsFiles
    /\ input_file = None /\ output_format = None /\ output_arg = None
    /\ output_file = None
    /\ result = FALSE /\ exitCode = -1
    /\ probe = "none" /\ localExe = FALSE /\ checkRaised = FALSE
    /\ exc = "none" /\ escaped = FALSE /\ failedAt = "none"
    /\ steps = <<>> /\ engine = <<>>
    /\ calls = 0 /\ prevResolved = None /\ prevIsDir = FALSE

\* ----------------------------------------------------------- convert_audio
\* entry of convert_audio(in, fmt, out)
Enter(in, fmt, out) ==
    /\ input_file' = in /\ output_format' = fmt
    /\ output_arg' = out /\ output_file' = out
    /\ snapDirs' = fsDirs /\ snapFiles' = fsFiles
    /\ result' = FALSE
    /\ probe' = "none" /\ localExe' = FALSE /\ checkRaised' = FALSE
    /\ exc' = "none" /\ escaped' = FALSE /\ failedAt' = "none"
    /\ steps' = <<>> /\ engine' = <<>>
    /\ pc' = "check"

\* return False from step s; e names the exception the last handler caught
ReturnFalse(s, e) ==
    /\ result' = FALSE /\ failedAt' = s /\ exc' = e /\ escaped' = FALSE
    /\ pc' = "returned"

\* "Check FFmpeg availability"
CheckFfmpeg ==
    /\ pc = "check"
    /\ \E outcome \in ProbeOutcomes, exe \in BOOLEAN :
        \* os.path.exists is consulted in the except branch only
        /\ outcome \notin {"CalledProcessError", "FileNotFoundError"} => ~exe
        /\ probe' = outcome /\ localExe' = exe
        \* the engine ran unless the program could not be started
        /\ engine' = IF outcome \in {"ok", "CalledProcessError"}
                     THEN Append(engine, "probe") ELSE engine
        /\ steps' = Append(steps, "check")
        /\ LET r == check_ffmpeg(outcome, exe)
           IN  /\ checkRaised' = (r = "raise")
               /\ IF r = "True"
                  THEN pc' = "isfile" /\ UNCHANGED <<result, failedAt, exc, escaped>>
                  ELSE ReturnFalse("check", IF r = "raise" THEN outcome ELSE "none")
    /\ UNCHANGED <<mode, request, input_file, output_format, output_arg,
                   output_file, exitCode, fsDirs, fsFiles, snapDirs, snapFiles,
                   calls, prevResolved, prevIsDir>>

\* the input check that reports a missing file and goes on
CheckInput_goes_on ==
    /\ pc = "isfile"
    /\ steps' = Append(steps, "isfile")
    /\ IF input_file = None
       THEN ReturnFalse("isfile", "TypeError")
       ELSE pc' = "validate" /\ UNCHANGED <<result, failedAt, exc, escaped>>
    /\ UNCHANGED <<mode, request, input_file, output_format, output_arg,
                   output_file, exitCode, fsDirs, fsFiles, snapDirs, snapFiles,
                   probe, localExe, checkRaised, engine,
                   calls, prevResolved, prevIsDir>>

\* "Validate input file"
CheckInput ==
    /\ pc = "isfile"
    /\ steps' = Append(steps, "isfile")
    /\ IF input_file = None
       THEN ReturnFalse("isfile", "TypeError")
       ELSE IF ~isfile(input_file, fsDirs, fsFiles)
            THEN ReturnFalse("isfile", "none")
            ELSE pc' = "validate" /\ UNCHANGED <<result, failedAt, exc, escaped>>
    /\ UNCHANGED <<mode, request, input_file, output_format, output_arg,
                   output_file, exitCode, fsDirs, fsFiles, snapDirs, snapFiles,
                   probe, localExe, checkRaised, engine,
                   calls, prevResolved, prevIsDir>>

\* the format check that reports an unsupported format and goes on
ValidateFormat_goes_on ==
    /\ pc = "validate"
    /\ steps' = Append(steps, "validate")
    /\ IF output_format = None
       THEN ReturnFalse("validate", "AttributeError")
       ELSE pc' = "resolve" /\ UNCHANGED <<result, failedAt, exc, escaped>>
    /\ UNCHANGED <<mode, request, input_file, output_format, output_arg,
                   output_file, exitCode, fsDirs, fsFiles, snapDirs, snapFiles,
                   probe, localExe, checkRaised, engine,
                   calls, prevResolved, prevIsDir>>

\* "Validate output format"
ValidateFormat ==
    /\ pc = "validate"
    /\ steps' = Append(steps, "validate")
    /\ IF output_format = None
       THEN ReturnFalse("validate", "AttributeError")
       ELSE IF ~validate_format(output_format)
            THEN ReturnFalse("validate", "none")
            ELSE pc' = "resolve" /\ UNCHANGED <<result, failedAt, exc, escaped>>
    /\ UNCHANGED <<mode, request, input_file, output_format, output_arg,
                   output_file, exitCode, fsDirs, fsFiles, snapDirs, snapFiles,
                   probe, localExe, checkRaised, engine,
                   calls, prevResolved, prevIsDir>>

\* "Get original filename without extension" and "Handle output path"
ResolveOutput ==
    /\ pc = "resolve"
    /\ steps' = Append(steps, "resolve")
    /\ output_file' = ResolveOutputPath(input_file, output_format, output_file,
                                        fsDirs, fsFiles)
    /\ pc' = "mkdir"
    /\ UNCHANGED <<mode, request, input_file, output_format, output_arg,
                   result, exitCode, fsDirs, fsFiles, snapDirs, snapFiles,
                   probe, localExe, checkRaised, exc, escaped, failedAt, engine,
                   calls, prevResolved, prevIsDir>>

\* "Create output directory if it doesn't exist"
MakeOutputDir ==
    /\ pc = "mkdir"
    /\ steps' = Append(steps, "mkdir")
    /\ LET output_dir == dirname(output_file)
           comps == Components(output_dir)
           made(k) == makedirs(SubSeq(comps, 1, k), Root, fsDirs, fsFiles)
           all == made(Len(comps))
       IN  IF output_dir = EmptyStr
           THEN pc' = "convert" /\ UNCHANGED <<fsDirs, result, failedAt, exc, escaped>>
           ELSE \/ /\ all.ok
                   /\ fsDirs' = all.dirs
                   /\ pc' = "convert"
                   /\ UNCHANGED <<result, failedAt, exc, escaped>>
                \/ /\ ~all.ok
                   /\ fsDirs' = all.dirs
                   /\ ReturnFalse("mkdir", "none")
                \* mkdir of a missing directory is refused (permissions)
                \/ \E k \in 0..(Len(comps) - 1) :
                       /\ made(k).ok
                       /\ made(k + 1).dirs # made(k).dirs
                       /\ fsDirs' = made(k).dirs
                       /\ ReturnFalse("mkdir", "none")
    /\ UNCHANGED <<mode, request, input_file, output_format, output_arg,
                   output_file, exitCode, fsFiles, snapDirs, snapFiles,
                   probe, localExe, checkRaised, engine,
                   calls, prevResolved, prevIsDir>>

\* "Load and convert audio"
Convert ==
    /\ pc = "convert"
    /\ steps' = Append(steps, "convert")
    /\ engine' = Append(engine, "convert")
    /\ LET target == WriteTarget(output_file, fsDirs, fsFiles)
       IN  \/ \* AudioSegment.from_file raises
              /\ UNCHANGED fsFiles
              /\ ReturnFalse("convert", "none")
           \/ \* audio.export raises, before or after it opened the file
              /\ \E left \in {FALSE, target.ok} :
                    fsFiles' = IF left THEN fsFiles \cup {target.loc} ELSE fsFiles
              /\ ReturnFalse("convert", "none")
           \/ \* audio.export wrote the file
              /\ target.ok
              /\ fsFiles' = fsFiles \cup {target.loc}
              /\ result' = TRUE /\ pc' = "returned"
              /\ UNCHANGED <<failedAt, exc, escaped>>
    /\ UNCHANGED <<mode, request, input_file, output_format, output_arg,
                   output_file, exitCode, fsDirs, snapDirs, snapFiles,
                   probe, localExe, checkRaised,
                   calls, prevResolved, prevIsDir>>

\* ---------------------------------------------------------- library caller
\* the caller calls convert_audio with its arguments
Call ==
    /\ mode = "lib" /\ pc = "idle" /\ calls < MaxCalls
    /\ Enter(request.input, request.fmt, request.output)
    /\ UNCHANGED <<mode, request, exitCode, fsDirs, fsFiles,
                   calls, prevResolved, prevIsDir>>

\* convert_audio has returned to the caller
Return ==
    /\ mode = "lib" /\ pc = "returned"
    /\ pc' = "idle"
    /\ calls' = calls + 1
    /\ prevResolved' = IF "resolve" \in {steps[i] : i \in 1..Len(steps)}
                       THEN output_file ELSE None
    /\ prevIsDir' = (IsStr(output_arg) /\ isdir(output_arg, snapDirs, snapFiles))
    /\ UNCHANGED <<mode, request, exitCode, fsDirs, fsFiles>>
    /\ UNCHANGED callVars

\* -------------------------------------------------------------------- main
\* len(sys.argv) == 1: no option at all
NoArguments(r) ==
    r.input = None /\ r.fmt = None /\ r.output = None /\ ~r.help /\ ~r.malformed

MainNoArgs ==
    /\ mode = "cli" /\ pc = "main"
    /\ NoArguments(request)
    /\ exitCode' = 1
    /\ pc' = "exited"
    /\ UNCHANGED <<mode, request, fsDirs, fsFiles, calls, prevResolved, prevIsDir>>
    /\ UNCHANGED callVars

\* parser.parse_args(): -h prints the help and exits with 0; an error (a
\* required option missing, an unknown option, an option without its value)
\* exits with 2.  With both -h and an error on the line the one met first
\* decides.
MainParse ==
    /\ mode = "cli" /\ pc = "main"
    /\ ~NoArguments(request)
    /\ LET missing == request.input = None \/ request.fmt = None
       IN  \/ /\ request.help
              /\ exitCode' = 0 /\ pc' = "exited"
              /\ UNCHANGED callVars
           \/ /\ request.malformed \/ (missing /\ ~request.help)
              /\ exitCode' = 2 /\ pc' = "exited"
              /\ UNCHANGED callVars
           \/ /\ ~request.help /\ ~request.malformed /\ ~missing
              /\ Enter(Replace(request.input, Backslash, Slash),
                       request.fmt,
                       IF ~Falsy(request.output)
                       THEN Replace(request.output, Backslash, Slash) ELSE None)
              /\ UNCHANGED exitCode
    /\ UNCHANGED <<mode, request, fsDirs, fsFiles, calls, prevResolved, prevIsDir>>

\* sys.exit(success): True exits with 1, False with 0
MainExit_bool ==
    /\ mode = "cli" /\ pc = "returned"
    /\ exitCode' = IF result THEN 1 ELSE 0
    /\ pc' = "exited"
    /\ calls' = calls + 1
    /\ UNCHANGED <<mode, request, fsDirs, fsFiles, prevResolved, prevIsDir>>
    /\ UNCHANGED callVars

\* sys.exit(0 if success else 1)
MainExit ==
    /\ mode = "cli" /\ pc = "returned"
    /\ exitCode' = IF result THEN 0 ELSE 1
    /\ pc' = "exited"
    /\ calls' = calls + 1
    /\ UNCHANGED <<mode, request, fsDirs, fsFiles, prevResolved, prevIsDir>>
    /\ UNCHANGED callVars

Next ==
    \/ CheckFfmpeg \/ CheckInput \/ ValidateFormat \/ ResolveOutput
    \/ MakeOutputDir \/ Convert
    \/ Call \/ Return
    \/ MainNoArgs \/ MainParse \/ MainExit

Spec == Init /\ [][Next]_vars

\* ------------------------------------------- validate_format on its own
CaseVariants(f) ==
    {t \in [1..Len(f) -> {"a", "c", "f", "g", "l", "m", "o", "p", "v", "w",
                          "A", "C", "F", "G", "L", "M", "O", "P", "V", "W",
                          "3", "4"}] :
        \A i \in 1..Len(f) : LowerChar(t[i]) = f[i]}

Tokens ==
    UNION {CaseVariants(get_supported_formats[i]) :
             i \in 1..Len(get_supported_formats)}
    \cup {EmptyStr, xyz, <<"m", "p">>, <<"m", "p", "3", "3">>, <<Dot, "m", "p", "3">>,
          <<"m", "p", "4">>, <<"w", "a", "v", "e">>, <<"X", "Y", "Z">>,
          <<"m", "p", "3", "w", "a", "v">>, <<"o", "g">>}

InitValidate ==
    /\ mode = "fn" /\ pc = "validate_format"
    /\ request = [input |-> None, fmt |-> None, output |-> None,
                  help |-> FALSE, malformed |-> FALSE]
    /\ output_format \in Tokens
    /\ fsDirs = BaseDirs /\ fsFiles = BaseFiles
    /\ snapDirs = fsDirs /\ snapFiles = fsFiles
    /\ input_file = None /\ output_arg = None /\ output_file = None
    /\ result = FALSE /\ exitCode = -1
    /\ probe = "none" /\ localExe = FALSE /\ checkRaised = FALSE
    /\ exc = "none" /\ escaped = FALSE /\ failedAt = "none"
    /\ steps = <<>> /\ engine = <<>>
    /\ calls = 0 /\ prevResolved = None /\ prevIsDir = FALSE

\* one call of validate_format(output_format)
ValidateCall ==
    /\ mode = "fn" /\ pc = "validate_format"
    /\ result' = validate_format(output_format)
    /\ pc' = "validated"
    /\ UNCHANGED <<mode, request, input_file, output_format, output_arg,
                   output_file, exitCode, fsDirs, fsFiles, snapDirs, snapFiles,
                   probe, localExe, checkRaised, exc, escaped, failedAt, steps,
                   engine, calls, prevResolved, prevIsDir>>

NextValidate == ValidateCall

SpecValidate == InitValidate /\ [][NextValidate]_vars

\* ============================================================== properties
Executed(s) == \E i \in 1..Len(steps) : steps[i] = s

\* a call of convert_audio has returned and its variables are still there
CallOver == pc \in {"returned", "idle", "exited"} /\ steps # <<>>

\* the file name the spec gives the output: <stem of the input>.<format>
ExpectedName == FileName(splitext(basename(input_file))[1], output_format)

FsUntouched == fsDirs = snapDirs /\ fsFiles = snapFiles

\* the probe failed with an error check_ffmpeg handles and no ffmpeg.exe
\* is in the working directory
EngineUnreachable ==
    probe \in {"CalledProcessError", "FileNotFoundError"} /\ ~localExe

\* check_ffmpeg did not answer True
EngineDown == probe # "none" /\ probe # "ok" /\ ~(probe # "PermissionError" /\ localExe)

InputMissing ==
    IsStr(input_file) /\ ~isfile(input_file, snapDirs, snapFiles)

InputBad == input_file = None \/ InputMissing

\* characters that differ in case only
CasePairs ==
    {<<"a", "A">>, <<"c", "C">>, <<"f", "F">>, <<"g", "G">>, <<"l", "L">>,
     <<"m", "M">>, <<"o", "O">>, <<"p", "P">>, <<"v", "V">>, <<"w", "W">>,
     <<"x", "X">>, <<"y", "Y">>, <<"z", "Z">>}

SameIgnoringCase(s, t) ==
    /\ Len(s) = Len(t)
    /\ \A i \in 1..Len(s) :
         s[i] = t[i] \/ <<s[i], t[i]>> \in CasePairs \/ <<t[i], s[i]>> \in CasePairs

\* the fixed set the spec names
SupportedFormatSet == {mp3, wav, ogg, m4a, flac, aac, wma}

Supported(token) ==
    IsStr(token) /\ \E f \in SupportedFormatSet : SameIgnoringCase(token, f)

FormatBad == ~Supported(output_format)

\* the place a path names, "." and ".." resolved (os.path.normpath)
RECURSIVE Norm(_, _)
Norm(comps, cur) ==
    IF comps = <<>> THEN cur
    ELSE Norm(Tail(comps),
              IF Head(comps) = <<Dot>> THEN cur
              ELSE IF Head(comps) = <<Dot, Dot>> THEN Parent(cur)
              ELSE Append(cur, Head(comps)))

Place(p) == Norm(Components(p), Root)

\* C1: whatever output path is supplied, the resolved output file is named
\* <stem of the input file>.<output_format>.
C1_Claim ==
    Executed("resolve") => basename(output_file) = ExpectedName

\* C2: with no output path the resolved file is named <input stem>.<format>
\* and lies in the directory of the input file.
C2_Claim ==
    (Executed("resolve") /\ output_arg = None) =>
        /\ basename(output_file) = ExpectedName
        /\ dirname(output_file) = dirname(input_file)

\* C3: with an output path the resolved path is <input stem>.<format> inside
\* the output path itself when it is an existing directory, and inside the
\* directory portion of the output path otherwise.
C3_Claim ==
    (Executed("resolve") /\ ~Falsy(output_arg)) =>
        output_file =
            join(IF isdir(output_arg, snapDirs, snapFiles)
                 THEN output_arg ELSE dirname(output_arg),
                 ExpectedName)

\* C4: when the engine is unreachable the call returns False right after
\* the availability check and the filesystem is as it was at entry.
C4_EngineUnreachable ==
    EngineUnreachable =>
        /\ CallOver
        /\ result = FALSE
        /\ steps = <<"check">>
        /\ FsUntouched

C4_Witness ==
    /\ pc = "returned" /\ EngineUnreachable
    /\ result = FALSE /\ FsUntouched
    /\ IsStr(input_file) /\ isfile(input_file, fsDirs, fsFiles)
    /\ Supported(output_format)
    /\ IsStr(output_arg) /\ dirname(output_arg) # EmptyStr
    /\ ~isdir(dirname(output_arg), fsDirs, fsFiles)

\* C5 as stated: when the input file does not exist the call returns False,
\* the external engine was not invoked at all, and the filesystem is as it
\* was at entry.
C5_Original ==
    (CallOver /\ InputMissing) =>
        /\ result = FALSE
        /\ engine = <<>>
        /\ FsUntouched

\* C5 amended: when the input file does not exist the call returns False,
\* the engine's conversion was not invoked (only the version probe of the
\* availability check may have run), and the filesystem is as it was.
C5_InputMissing ==
    (CallOver /\ InputMissing) =>
        /\ result = FALSE
        /\ \A i \in 1..Len(engine) : engine[i] = "probe"
        /\ ~Executed("mkdir") /\ ~Executed("convert")
        /\ FsUntouched

C5_Witness ==
    /\ pc = "returned" /\ InputMissing /\ ~EngineDown
    /\ failedAt = "isfile" /\ result = FALSE
    /\ engine = <<"probe">>
    /\ Supported(output_format)

\* C6: the steps run in the order check, isfile, validate, resolve, mkdir,
\* convert; a call that returns False stopped at its failing step, which is
\* the earliest step whose condition fails; the conversion runs only after
\* the three checks passed and the target directory is there; True is
\* returned only after the conversion completed.
C6_Order ==
    /\ Len(steps) <= Len(Order)
    /\ \A i \in 1..Len(steps) : steps[i] = Order[i]
    /\ (CallOver /\ ~result) =>
        /\ failedAt = steps[Len(steps)]
        /\ EngineDown => failedAt = "check"
        /\ (~EngineDown /\ InputBad) => failedAt = "isfile"
        /\ (~EngineDown /\ ~InputBad /\ FormatBad) => failedAt = "validate"
    /\ Executed("convert") =>
        /\ ~EngineDown /\ ~InputBad /\ ~FormatBad
        /\ Executed("mkdir")
        /\ \/ dirname(output_file) = EmptyStr
           \/ isdir(dirname(output_file), fsDirs, fsFiles)
    /\ result =>
        /\ steps = Order
        /\ failedAt = "none"
        /\ isfile(output_file, fsDirs, fsFiles)

C6_Witness ==
    /\ pc = "returned" /\ ~result
    /\ ~EngineDown /\ InputMissing /\ FormatBad
    /\ failedAt = "isfile" /\ steps = <<"check", "isfile">>

\* C7: no exception leaves convert_audio, and check_ffmpeg never ends by
\* raising: it reports failure through its boolean result only.
C7_Claim == ~escaped /\ ~checkRaised

\* C8 as stated: the exit status is 0 exactly when the conversion
\* succeeded and 1 otherwise, a rejected command line included.
C8_Original ==
    pc = "exited" =>
        /\ exitCode \in {0, 1}
        /\ exitCode = 0 <=> (steps # <<>> /\ result)
        /\ NoArguments(request) => exitCode = 1

\* C8 amended: the exit status is 1 when there is no argument at all or
\* convert_audio returned False, 0 when convert_audio returned True or the
\* help was asked for, and 2 when the argument parser rejects the command
\* line; convert_audio is not called in the cases decided by the parser.
C8_ExitCode ==
    pc = "exited" =>
        /\ exitCode \in {0, 1, 2}
        /\ NoArguments(request) => (exitCode = 1 /\ steps = <<>>)
        /\ steps # <<>> => exitCode = (IF result THEN 0 ELSE 1)
        /\ (steps = <<>> /\ ~NoArguments(request)) =>
             \/ exitCode = 0 /\ request.help
             \/ /\ exitCode = 2
                /\ \/ request.malformed
                   \/ request.input = None \/ request.fmt = None
        /\ (~request.help /\ ~request.malformed /\ request.input # None
              /\ request.fmt # None) => steps # <<>>

C8_Witness ==
    /\ pc = "exited" /\ exitCode = 2
    /\ request.input # None /\ request.fmt = None
    /\ ~request.help /\ ~request.malformed

\* C9: validate_format answers True exactly for the tokens that equal a
\* member of {mp3, wav, ogg, m4a, flac, aac, wma} up to letter case, False
\* for the empty string and for xyz, and changes nothing else.
C9_ValidateFormat ==
    pc = "validated" =>
        /\ result <=> (\E f \in SupportedFormatSet : SameIgnoringCase(output_format, f))
        /\ output_format \in {mp3, MP3} => result
        /\ output_format \in {EmptyStr, xyz} => ~result
        /\ fsDirs = BaseDirs /\ fsFiles = BaseFiles
        /\ steps = <<>> /\ engine = <<>> /\ exitCode = -1

C9_Witness ==
    pc = "validated" /\ output_format = MP3 /\ result

\* the second of two consecutive calls with the same arguments has resolved
\* its output path, as the first had
SecondResolved ==
    /\ mode = "lib" /\ calls >= 1 /\ pc # "idle"
    /\ Executed("resolve") /\ prevResolved # None

====
